---- MODULE Spec2Model ----
(***************************************************************************)
(* Model of the EVM event parser (src/src/App.tsx): the block-tag          *)
(* resolver, the indexed-argument filter builder, the schema catalog, the  *)
(* query pipeline (fetchEvents) and the pager.                             *)
(*                                                                         *)
(* Texts are sequences of one-character strings, so that trimming,         *)
(* splitting, lower-casing and integer parsing are computed as the code    *)
(* computes them.                                                          *)
(***************************************************************************)
EXTENDS Integers, Sequences, FiniteSets, TLC

VARIABLES
  formData,        \* [contractABI, fromBlock, toBlock]           App.tsx:25
  events,          \* decoded result set                          App.tsx:32
  loading,         \* busy flag                                   App.tsx:33
  error,           \* error banner text                           App.tsx:34
  customABI,       \* last successfully JSON-parsed custom schema App.tsx:35
  doCustom,        \* custom schema textarea shown                App.tsx:36
  indexedFilters,  \* raw filter text per parameter name          App.tsx:37
  eventsABI,       \* the catalog                                 App.tsx:38
  selectedEvent,   \* name of the selected event                  App.tsx:39
  clickedButton,   \* 0 Custom, 1 ERC20, 2 ERC721                 App.tsx:40
  currentPage,     \* 1-based page number                         App.tsx:41
  queries,         \* fetchEvents invocations suspended at an await
  uncaught,        \* exception that escaped the handler that ran last
  edits,           \* form edits made so far in the session
  tagCall,         \* one application of parseBlockTag
  filterCall,      \* one application of the argsFilters reduction
  pageCall,        \* one application of the pager expressions
  decodeCall       \* one application of the decode step to a list of raw logs

appVars == <<formData, events, loading, error, customABI, doCustom,
             indexedFilters, eventsABI, selectedEvent, clickedButton,
             currentPage, queries, uncaught, edits>>
callVars == <<tagCall, filterCall, pageCall, decodeCall>>
vars == <<formData, events, loading, error, customABI, doCustom,
          indexedFilters, eventsABI, selectedEvent, clickedButton,
          currentPage, queries, uncaught, edits,
          tagCall, filterCall, pageCall, decodeCall>>

(***************************************************************************)
(* Bounds                                                                  *)
(***************************************************************************)
MaxTail == 3          \* length of the free part of a block-tag text
MaxRawLen == 4        \* length of a raw filter text
MaxSeqLen == 38       \* length of a sequence handed to the pager
MaxEdits == 3         \* form edits in one session
MaxInFlight == 2      \* fetchEvents invocations the model can hold suspended
MaxLimbs == 2         \* base-1000 limbs of a generated integer
MaxLogs == 2          \* raw logs in one decoded answer

(***************************************************************************)
(* Text helpers: String.prototype.trim, toLowerCase, split, slice          *)
(***************************************************************************)
WhiteSpace == {" ", "\t"}

Min(a, b) == IF a < b THEN a ELSE b
Max(a, b) == IF a > b THEN a ELSE b

RECURSIVE trimStart(_)
trimStart(s) ==
  IF s # <<>> /\ Head(s) \in WhiteSpace THEN trimStart(Tail(s)) ELSE s

RECURSIVE trimEnd(_)
trimEnd(s) ==
  IF s # <<>> /\ s[Len(s)] \in WhiteSpace
  THEN trimEnd(SubSeq(s, 1, Len(s) - 1)) ELSE s

trim(s) == trimEnd(trimStart(s))

UpperToLower ==
  ("A" :> "a") @@ ("B" :> "b") @@ ("E" :> "e") @@ ("L" :> "l") @@
  ("O" :> "o") @@ ("S" :> "s") @@ ("T" :> "t") @@ ("X" :> "x")

toLowerCase(s) ==
  [i \in 1..Len(s) |->
     IF s[i] \in DOMAIN UpperToLower THEN UpperToLower[s[i]] ELSE s[i]]

\* Array.prototype.slice / String.prototype.slice(start, end), zero-based
slice(s, start, end) ==
  LET n == Len(s)
      from == IF start < 0 THEN Max(n + start, 0) ELSE Min(start, n)
      to == IF end < 0 THEN Max(n + end, 0) ELSE Min(end, n)
  IN SubSeq(s, from + 1, to)

\* String.prototype.split(sep) for a one-character separator
RECURSIVE splitFrom(_, _, _)
splitFrom(s, sep, piece) ==
  IF s = <<>> THEN <<piece>>
  ELSE IF Head(s) = sep THEN <<piece>> \o splitFrom(Tail(s), sep, <<>>)
  ELSE splitFrom(Tail(s), sep, Append(piece, Head(s)))

split(s, sep) == splitFrom(s, sep, <<>>)

(***************************************************************************)
(* BigInt(string): StringToBigInt of ECMAScript                            *)
(***************************************************************************)
DigitValue ==
  ("0" :> 0) @@ ("1" :> 1) @@ ("2" :> 2) @@ ("3" :> 3) @@ ("4" :> 4) @@
  ("5" :> 5) @@ ("6" :> 6) @@ ("7" :> 7) @@ ("8" :> 8) @@ ("9" :> 9) @@
  ("a" :> 10) @@ ("b" :> 11) @@ ("c" :> 12) @@ ("d" :> 13) @@ ("e" :> 14) @@
  ("f" :> 15) @@ ("A" :> 10) @@ ("B" :> 11) @@ ("C" :> 12) @@ ("D" :> 13) @@
  ("E" :> 14) @@ ("F" :> 15)

IsDigitIn(c, radix) == c \in DOMAIN DigitValue /\ DigitValue[c] < radix

AllDigits(s, radix) ==
  s # <<>> /\ \A i \in 1..Len(s) : IsDigitIn(s[i], radix)

RECURSIVE ValueIn(_, _)
ValueIn(s, radix) ==
  IF s = <<>> THEN 0
  ELSE ValueIn(SubSeq(s, 1, Len(s) - 1), radix) * radix + DigitValue[s[Len(s)]]

RadixOfPrefix ==
  ("x" :> 16) @@ ("X" :> 16) @@ ("o" :> 8) @@ ("O" :> 8) @@
  ("b" :> 2) @@ ("B" :> 2)

BigInt(s) ==
  LET t == trim(s)
      body == IF t # <<>> /\ t[1] \in {"+", "-"} THEN Tail(t) ELSE t
  IN IF t = <<>> THEN [ok |-> TRUE, val |-> 0]
     ELSE IF AllDigits(body, 10)
       THEN [ok |-> TRUE,
             val |-> IF t[1] = "-" THEN 0 - ValueIn(body, 10)
                     ELSE ValueIn(body, 10)]
     ELSE IF Len(t) >= 3 /\ t[1] = "0" /\ t[2] \in DOMAIN RadixOfPrefix
             /\ AllDigits(SubSeq(t, 3, Len(t)), RadixOfPrefix[t[2]])
       THEN [ok |-> TRUE,
             val |-> ValueIn(SubSeq(t, 3, Len(t)), RadixOfPrefix[t[2]])]
     ELSE [ok |-> FALSE, val |-> 0]

(***************************************************************************)
(* parseBlockTag                                                           *)
(***************************************************************************)
BlockNum(n) == [kind |-> "bigint", num |-> n, str |-> <<>>]
BlockStr(s) == [kind |-> "string", num |-> 0, str |-> s]
BlockThrow == [kind |-> "throw", num |-> 0, str |-> <<>>]

LatestWord == <<"l", "a", "t", "e", "s", "t">>

\* lower.match(/^latest\s*([+-]?\d+)$/): the capture group, or no match
latestWithOffset(lower) ==
  LET rest == trimStart(SubSeq(lower, 7, Len(lower)))
      digits == IF rest # <<>> /\ rest[1] \in {"+", "-"} THEN Tail(rest)
                ELSE rest
  IN IF Len(lower) > 6 /\ SubSeq(lower, 1, 6) = LatestWord
        /\ AllDigits(digits, 10)
     THEN [matched |-> TRUE, group |-> rest]
     ELSE [matched |-> FALSE, group |-> <<>>]

\* parseBlockTag with the "-" branch subtracting the already negative parse
parseBlockTagSignTwice(str, latestBlockNum) ==
  LET trimmed == trim(str)
      lower == toLowerCase(trimmed)
      m == latestWithOffset(lower)
      parsed == BigInt(trimmed)
  IN IF trimmed = <<>> THEN BlockNum(latestBlockNum)
     ELSE IF lower = LatestWord THEN BlockNum(latestBlockNum)
     ELSE IF m.matched
       THEN BlockNum(latestBlockNum + BigInt(m.group).val)
     ELSE IF ~parsed.ok THEN BlockStr(str)
     ELSE IF trimmed[1] = "+" THEN BlockNum(latestBlockNum + parsed.val)
     ELSE IF trimmed[1] = "-" THEN BlockNum(latestBlockNum - parsed.val)
     ELSE BlockNum(parsed.val)

parseBlockTag(str, latestBlockNum) ==
  LET trimmed == trim(str)
      lower == toLowerCase(trimmed)
      m == latestWithOffset(lower)
      parsed == BigInt(trimmed)
  IN IF trimmed = <<>> THEN BlockNum(latestBlockNum)
     ELSE IF lower = LatestWord THEN BlockNum(latestBlockNum)
     ELSE IF m.matched
       THEN (IF BigInt(m.group).ok
             THEN BlockNum(latestBlockNum + BigInt(m.group).val)
             ELSE BlockThrow)
     ELSE IF ~parsed.ok THEN BlockStr(str)
     ELSE IF trimmed[1] = "+" THEN BlockNum(latestBlockNum + parsed.val)
     ELSE IF trimmed[1] = "-"
       THEN (IF BigInt(slice(trimmed, 1, Len(trimmed))).ok
             THEN BlockNum(latestBlockNum
                           - BigInt(slice(trimmed, 1, Len(trimmed))).val)
             ELSE BlockStr(str))
     ELSE BlockNum(parsed.val)

(***************************************************************************)
(* Filter builder: the reduction over Object.entries(indexedFilters)       *)
(***************************************************************************)
argsFilters(filters) ==
  [key \in {k \in DOMAIN filters : Len(filters[k]) # 0} |->
     [i \in 1..Len(split(filters[key], ",")) |->
        trim(split(filters[key], ",")[i])]]

(***************************************************************************)
(* Pager                                                                   *)
(***************************************************************************)
eventsPerPage == 15

\* Math.ceil(a / b) for a >= 0, b > 0
MathCeilDiv(a, b) == IF a % b = 0 THEN a \div b ELSE (a \div b) + 1

indexOfLastEventOf(page, perPage) == page * perPage
indexOfFirstEventOf(page, perPage) == indexOfLastEventOf(page, perPage) - perPage
currentEventsOf(seq, page, perPage) ==
  slice(seq, indexOfFirstEventOf(page, perPage), indexOfLastEventOf(page, perPage))
\* the page count rounded down instead of up
totalPagesFloor(seq, perPage) == Len(seq) \div perPage

totalPagesOf(seq, perPage) == MathCeilDiv(Len(seq), perPage)

indexOfLastEvent == indexOfLastEventOf(currentPage, eventsPerPage)
indexOfFirstEvent == indexOfFirstEventOf(currentPage, eventsPerPage)
currentEvents == currentEventsOf(events, currentPage, eventsPerPage)
totalPages == totalPagesOf(events, eventsPerPage)

(***************************************************************************)
(* Schema catalog                                                          *)
(***************************************************************************)
Input(n, t, ix) == [name |-> n, type |-> t, indexed |-> ix]
Item(t, n, ins) == [type |-> t, name |-> n, inputs |-> ins]

\* Preset schemas (./abi.tsx): the standard token event sets
ERC20_ABI ==
  << Item("function", "transfer",
          <<Input("to", "address", FALSE), Input("value", "uint256", FALSE)>>),
     Item("event", "Transfer",
          <<Input("from", "address", TRUE), Input("to", "address", TRUE),
            Input("value", "uint256", FALSE)>>),
     Item("event", "Approval",
          <<Input("owner", "address", TRUE), Input("spender", "address", TRUE),
            Input("value", "uint256", FALSE)>>) >>

ERC721_ABI ==
  << Item("event", "Transfer",
          <<Input("from", "address", TRUE), Input("to", "address", TRUE),
            Input("tokenId", "uint256", TRUE)>>),
     Item("event", "ApprovalForAll",
          <<Input("owner", "address", TRUE), Input("operator", "address", TRUE),
            Input("approved", "bool", FALSE)>>) >>

\* Texts a user types into the schema textarea, and what JSON.parse makes of
\* them.  A text is a sequence of tokens; a token stands for the JSON it spells.
FnToken == "{type:function,name:mint}"
EvToken == "{type:event,name:Mint,inputs:[to indexed,amount]}"
FnItem == Item("function", "mint", <<>>)
EvItem == Item("event", "Mint",
               <<Input("to", "address", TRUE), Input("amount", "uint256", FALSE)>>)

BlankAbiText == <<" ">>
BadAbiText == <<"[", FnToken>>
NoEventAbiText == <<"[", FnToken, "]">>
GoodAbiText == <<" ", "[", FnToken, ",", EvToken, "]">>
AbiTexts == {<<>>, BlankAbiText, BadAbiText, NoEventAbiText, GoodAbiText}

JSONparse(text) ==
  IF text = <<"[", FnToken, "]">> THEN [ok |-> TRUE, value |-> <<FnItem>>]
  ELSE IF text = <<"[", FnToken, ",", EvToken, "]">>
    THEN [ok |-> TRUE, value |-> <<FnItem, EvItem>>]
  ELSE [ok |-> FALSE, value |-> <<>>]

IsEvent(item) == item.type = "event"

\* updateEventList: the values it gives eventsABI and selectedEvent
updateEventList(abi) ==
  LET abiEvents == SelectSeq(abi, IsEvent)
  IN IF Len(abiEvents) = 0
     THEN [eventsABI |-> <<>>, selectedEvent |-> ""]
     ELSE [eventsABI |-> abiEvents, selectedEvent |-> abiEvents[1].name]

\* eventsABI.find((event) => event.name === selectedEvent)?.inputs
\*   ?.filter((input) => input.indexed === true) ?? []   (names only)
FindIndex(abi, name) ==
  IF \E i \in 1..Len(abi) : abi[i].name = name
  THEN CHOOSE i \in 1..Len(abi) :
         abi[i].name = name /\ \A j \in 1..(i - 1) : abi[j].name # name
  ELSE 0

IndexedParams(abi, name) ==
  IF FindIndex(abi, name) = 0 THEN {}
  ELSE {abi[FindIndex(abi, name)].inputs[i].name :
          i \in {j \in 1..Len(abi[FindIndex(abi, name)].inputs) :
                   abi[FindIndex(abi, name)].inputs[j].indexed}}

EventNames(abi) == {abi[i].name : i \in 1..Len(abi)}

(***************************************************************************)
(* The session: inputs a user can type, answers the chain client can give  *)
(***************************************************************************)
EarliestText == <<"e", "a", "r", "l", "i", "e", "s", "t">>
BlockTexts == {<<>>, EarliestText}
FilterTexts == {<<>>, <<"0", "x", "A">>}
Heads == {1000, 1001}

RawLog(i) ==
  [blockNumber |-> i, transactionHash |-> i,
   args |-> [defined |-> i % 2 = 1, entries |-> ("value" :> i)]]
RawLogs(n) == [i \in 1..n |-> RawLog(i)]
LogResponses == {RawLogs(0), RawLogs(1), RawLogs(eventsPerPage + 1)}

NoFilters == [k \in {} |-> <<>>]
Undefined == [kind |-> "undefined", num |-> 0, str |-> <<>>]
NoRequest ==
  [abi |-> <<>>, eventName |-> "", fromBlock |-> Undefined,
   toBlock |-> Undefined, args |-> NoFilters]

NoCall == [done |-> FALSE]

AppInit ==
  /\ formData = [contractABI |-> <<>>, fromBlock |-> <<>>, toBlock |-> <<>>]
  /\ events = <<>>
  /\ loading = FALSE
  /\ error = ""
  /\ customABI = <<>>
  /\ doCustom = TRUE
  /\ indexedFilters = NoFilters
  /\ eventsABI = <<>>
  /\ selectedEvent = ""
  /\ clickedButton = 0
  /\ currentPage = 1
  /\ queries = <<>>
  /\ uncaught = ""
  /\ edits = 0

CallsIdle ==
  tagCall = NoCall /\ filterCall = NoCall /\ pageCall = NoCall /\ decodeCall = NoCall

Init == AppInit /\ CallsIdle

(***************************************************************************)
(* Form handlers                                                           *)
(***************************************************************************)
\* handleInputChange for the Start Block and End Block inputs
handleInputChange(name, value) ==
  /\ edits < MaxEdits
  /\ edits' = edits + 1
  /\ name \in {"fromBlock", "toBlock"}
  /\ value # formData[name]
  /\ formData' = [formData EXCEPT ![name] = value]
  /\ uncaught' = ""
  /\ UNCHANGED <<events, loading, error, customABI, doCustom, indexedFilters,
                 eventsABI, selectedEvent, clickedButton, currentPage, queries>>
  /\ UNCHANGED callVars

\* handleInputChange for the schema textarea (name === "contractABI")
handleInputChangeABI(value) ==
  LET newABI == trim(value)
      parsed == JSONparse(newABI)
      list == updateEventList(parsed.value)
  IN /\ doCustom
     /\ edits < MaxEdits
     /\ edits' = edits + 1
     /\ value # formData.contractABI
     /\ formData' = [formData EXCEPT !.contractABI = value]
     /\ IF newABI = <<>>
        THEN /\ eventsABI' = <<>>
             /\ selectedEvent' = ""
             /\ uncaught' = ""
             /\ UNCHANGED customABI
        ELSE IF ~parsed.ok
        THEN /\ uncaught' = "SyntaxError"
             /\ UNCHANGED <<eventsABI, selectedEvent, customABI>>
        ELSE /\ customABI' = parsed.value
             /\ eventsABI' = list.eventsABI
             /\ selectedEvent' = list.selectedEvent
             /\ uncaught' = ""
     /\ UNCHANGED <<events, loading, error, doCustom, indexedFilters,
                    clickedButton, currentPage, queries>>
     /\ UNCHANGED callVars

handleEventSelect(value) ==
  /\ edits < MaxEdits
  /\ edits' = edits + 1
  /\ Len(eventsABI) > 0
  /\ ~loading
  /\ value \in EventNames(eventsABI)
  /\ value # selectedEvent
  /\ selectedEvent' = value
  /\ uncaught' = ""
  /\ UNCHANGED <<formData, events, loading, error, customABI, doCustom,
                 indexedFilters, eventsABI, clickedButton, currentPage, queries>>
  /\ UNCHANGED callVars

FilterValue(filters, paramName) ==
  IF paramName \in DOMAIN filters THEN filters[paramName] ELSE <<>>

handleFilterChange(paramName, value) ==
  /\ edits < MaxEdits
  /\ edits' = edits + 1
  /\ Len(eventsABI) > 0
  /\ paramName \in IndexedParams(eventsABI, selectedEvent)
  /\ value # FilterValue(indexedFilters, paramName)
  /\ indexedFilters' =
       [k \in DOMAIN indexedFilters \cup {paramName} |->
          IF k = paramName THEN value ELSE indexedFilters[k]]
  /\ uncaught' = ""
  /\ UNCHANGED <<formData, events, loading, error, customABI, doCustom,
                 eventsABI, selectedEvent, clickedButton, currentPage, queries>>
  /\ UNCHANGED callVars

handleSelectInterface(type) ==
  LET abi == CASE type = "ERC20" -> ERC20_ABI
               [] type = "ERC721" -> ERC721_ABI
               [] OTHER -> customABI
      list == updateEventList(abi)
  IN /\ type \in {"ERC20", "ERC721", "Custom"}
     /\ edits < MaxEdits
     /\ edits' = edits + 1
     /\ error' = ""
     /\ clickedButton' = (CASE type = "ERC20" -> 1 [] type = "ERC721" -> 2
                            [] OTHER -> 0)
     /\ doCustom' = (type = "Custom")
     /\ eventsABI' = list.eventsABI
     /\ selectedEvent' = list.selectedEvent
     /\ uncaught' = ""
     /\ UNCHANGED <<formData, events, loading, customABI, indexedFilters,
                    currentPage, queries>>
     /\ UNCHANGED callVars

paginate(pageNumber) ==
  /\ Len(events) > 0
  /\ \/ pageNumber = currentPage - 1 /\ currentPage # 1
     \/ pageNumber = currentPage + 1 /\ currentPage # totalPages
  /\ currentPage' = pageNumber
  /\ uncaught' = ""
  /\ UNCHANGED <<formData, events, loading, error, customABI, doCustom,
                 indexedFilters, eventsABI, selectedEvent, clickedButton, queries,
                 edits>>
  /\ UNCHANGED callVars

(***************************************************************************)
(* fetchEvents: the click, and the continuation after each await           *)
(***************************************************************************)
\* the "Parse Events" button left enabled while a query is outstanding
ButtonNeverDisabled == FALSE

ButtonDisabled == loading

Remove(seq, i) == SubSeq(seq, 1, i - 1) \o SubSeq(seq, i + 1, Len(seq))

\* logs.map(...): blockNumber, txHash, args ?? {}
parsedEvents(logs) ==
  [i \in 1..Len(logs) |->
     [blockNumber |-> logs[i].blockNumber,
      txHash |-> logs[i].transactionHash,
      args |-> IF logs[i].args.defined THEN logs[i].args.entries
               ELSE [k \in {} |-> 0]]]

\* typeof x === "bigint" ? x : undefined
BigintOrUndefined(x) == IF x.kind = "bigint" THEN x ELSE Undefined

\* the argument of publicClient.getContractEvents
RequestOf(q, from, to) ==
  [abi |-> q.eventsABI,
   eventName |-> q.selectedEvent,
   fromBlock |-> BigintOrUndefined(from),
   toBlock |-> BigintOrUndefined(to),
   args |-> argsFilters(q.indexedFilters)]

\* the catch block without the finally block: the busy flag stays set
FailedStaysBusy(i, message) ==
  /\ error' = message
  /\ queries' = Remove(queries, i)
  /\ UNCHANGED <<events, currentPage, loading>>

\* the catch and finally blocks
Failed(i, message) ==
  /\ error' = message
  /\ loading' = FALSE
  /\ queries' = Remove(queries, i)
  /\ UNCHANGED <<events, currentPage>>

\* click on "Parse Events": runs to the first await, or fails creating the client
fetchEvents(clientOk) ==
  /\ ~ButtonDisabled
  /\ Len(queries) < MaxInFlight
  /\ IF clientOk
     THEN /\ loading' = TRUE
          /\ error' = ""
          /\ queries' = Append(queries,
               [stage |-> "getBlock",
                formData |-> formData,
                indexedFilters |-> indexedFilters,
                eventsABI |-> eventsABI,
                selectedEvent |-> selectedEvent,
                latestBlk |-> 0,
                headFetches |-> 1,
                rangeQueries |-> 0,
                fromBlock |-> Undefined,
                toBlock |-> Undefined,
                request |-> NoRequest])
     ELSE /\ loading' = FALSE
          /\ error' = "Error: No URL was provided to the Transport"
          /\ UNCHANGED queries
  /\ uncaught' = ""
  /\ UNCHANGED <<formData, events, customABI, doCustom, indexedFilters,
                 eventsABI, selectedEvent, clickedButton, currentPage, edits>>
  /\ UNCHANGED callVars

\* publicClient.getBlock() resolves: lines 174-185 run up to the second await
getBlockReturns(i, head) ==
  LET q == queries[i]
      from == parseBlockTag(q.formData.fromBlock, head)
      to == parseBlockTag(q.formData.toBlock, head)
  IN /\ i \in 1..Len(queries)
     /\ q.stage = "getBlock"
     /\ IF from.kind = "throw" \/ to.kind = "throw"
        THEN Failed(i, "Error: Cannot convert to a BigInt")
        ELSE /\ queries' = [queries EXCEPT ![i] =
                  [q EXCEPT !.stage = "getContractEvents",
                            !.latestBlk = head,
                            !.rangeQueries = q.rangeQueries + 1,
                            !.fromBlock = from,
                            !.toBlock = to,
                            !.request = RequestOf(q, from, to)]]
             /\ UNCHANGED <<events, loading, error, currentPage>>
     /\ uncaught' = ""
     /\ UNCHANGED <<formData, customABI, doCustom, indexedFilters, eventsABI,
                    selectedEvent, clickedButton, edits>>
     /\ UNCHANGED callVars

\* a rejected head fetch asked again (once) instead of ending the query
getBlockRetries(i) ==
  /\ i \in 1..Len(queries)
  /\ queries[i].stage = "getBlock"
  /\ IF queries[i].headFetches < 2
     THEN /\ queries' = [queries EXCEPT ![i].headFetches = @ + 1]
          /\ UNCHANGED <<events, loading, error, currentPage>>
     ELSE Failed(i, "Error: HTTP request failed")
  /\ uncaught' = ""
  /\ UNCHANGED <<formData, customABI, doCustom, indexedFilters, eventsABI,
                 selectedEvent, clickedButton, edits>>
  /\ UNCHANGED callVars

\* publicClient.getBlock() rejects
getBlockFails(i) ==
  /\ i \in 1..Len(queries)
  /\ queries[i].stage = "getBlock"
  /\ Failed(i, "Error: HTTP request failed")
  /\ uncaught' = ""
  /\ UNCHANGED <<formData, customABI, doCustom, indexedFilters, eventsABI,
                 selectedEvent, clickedButton, edits>>
  /\ UNCHANGED callVars

\* a successful query that leaves the page number where it was
getContractEventsKeepsPage(i, logs) ==
  /\ i \in 1..Len(queries)
  /\ queries[i].stage = "getContractEvents"
  /\ events' = parsedEvents(logs)
  /\ loading' = FALSE
  /\ queries' = Remove(queries, i)
  /\ uncaught' = ""
  /\ UNCHANGED <<formData, error, customABI, doCustom, indexedFilters,
                 eventsABI, selectedEvent, clickedButton, edits, currentPage>>
  /\ UNCHANGED callVars

\* publicClient.getContractEvents() resolves: lines 195-205, finally
getContractEventsReturns(i, logs) ==
  /\ i \in 1..Len(queries)
  /\ queries[i].stage = "getContractEvents"
  /\ events' = parsedEvents(logs)
  /\ currentPage' = 1
  /\ loading' = FALSE
  /\ queries' = Remove(queries, i)
  /\ uncaught' = ""
  /\ UNCHANGED <<formData, error, customABI, doCustom, indexedFilters,
                 eventsABI, selectedEvent, clickedButton, edits>>
  /\ UNCHANGED callVars

\* publicClient.getContractEvents() rejects
getContractEventsFails(i) ==
  /\ i \in 1..Len(queries)
  /\ queries[i].stage = "getContractEvents"
  /\ Failed(i, "Error: HTTP request failed")
  /\ uncaught' = ""
  /\ UNCHANGED <<formData, customABI, doCustom, indexedFilters, eventsABI,
                 selectedEvent, clickedButton, edits>>
  /\ UNCHANGED callVars

Next ==
  \/ \E name \in {"fromBlock", "toBlock"}, value \in BlockTexts :
       handleInputChange(name, value)
  \/ \E value \in AbiTexts : handleInputChangeABI(value)
  \/ \E value \in EventNames(eventsABI) : handleEventSelect(value)
  \/ \E paramName \in IndexedParams(eventsABI, selectedEvent),
        value \in FilterTexts : handleFilterChange(paramName, value)
  \/ \E type \in {"ERC20", "ERC721", "Custom"} : handleSelectInterface(type)
  \/ \E pageNumber \in {currentPage - 1, currentPage + 1} : paginate(pageNumber)
  \/ \E clientOk \in BOOLEAN : fetchEvents(clientOk)
  \/ \E i \in 1..Len(queries), head \in Heads : getBlockReturns(i, head)
  \/ \E i \in 1..Len(queries) : getBlockFails(i)
  \/ \E i \in 1..Len(queries), logs \in LogResponses :
       getContractEventsReturns(i, logs)
  \/ \E i \in 1..Len(queries) : getContractEventsFails(i)

Spec == Init /\ [][Next]_vars

\* every request to the chain client is answered: each await resumes
ChainClientAnswers ==
  \/ \E i \in 1..Len(queries), head \in Heads : getBlockReturns(i, head)
  \/ \E i \in 1..Len(queries) : getBlockFails(i)
  \/ \E i \in 1..Len(queries), logs \in LogResponses :
       getContractEventsReturns(i, logs)
  \/ \E i \in 1..Len(queries) : getContractEventsFails(i)

SpecLive == Init /\ [][Next]_vars /\ WF_vars(ChainClientAnswers)

(***************************************************************************)
(* parseBlockTag applied to one text                                       *)
(***************************************************************************)
StringsUpTo(n, alphabet) == UNION {[1..k -> alphabet] : k \in 0..n}

TagHeads == {5, 1000}
TagLead == {<<>>, <<" ">>}
TagStems == {<<>>, LatestWord, <<"L", "a", "T", "e", "s", "t">>,
             <<"l", "a", "t", "e">>}
TagChars == {" ", "+", "-", "0", "9", "x", "a"}
TagTexts ==
  {lead \o stem \o tail :
     lead \in TagLead, stem \in TagStems, tail \in StringsUpTo(MaxTail, TagChars)}

InitTag ==
  /\ AppInit
  /\ tagCall \in {[done |-> FALSE, str |-> t, latestBlockNum |-> h,
                   result |-> Undefined] : t \in TagTexts, h \in TagHeads}
  /\ filterCall = NoCall
  /\ pageCall = NoCall
  /\ decodeCall = NoCall

ResolveBlockTag ==
  /\ ~tagCall.done
  /\ tagCall' = [tagCall EXCEPT
       !.done = TRUE,
       !.result = parseBlockTag(tagCall.str, tagCall.latestBlockNum)]
  /\ UNCHANGED appVars
  /\ UNCHANGED <<filterCall, pageCall, decodeCall>>

NextTag == ResolveBlockTag

SpecTag == InitTag /\ [][NextTag]_vars

\* The grammar of the block-tag resolver, as the contract states it
IsBlankText(t) == \A i \in 1..Len(t) : t[i] \in WhiteSpace

CoreOf(t) ==
  LET inked == {i \in 1..Len(t) : t[i] \notin WhiteSpace}
      first == CHOOSE i \in inked : \A j \in inked : i <= j
      last == CHOOSE i \in inked : \A j \in inked : i >= j
  IN SubSeq(t, first, last)

LatestUpper == <<"L", "A", "T", "E", "S", "T">>

IsLatest(w) ==
  Len(w) = 6 /\ \A i \in 1..6 : w[i] \in {LatestWord[i], LatestUpper[i]}

IsDecimal(w) ==
  w # <<>> /\ \A i \in 1..Len(w) :
                w[i] \in {"0", "1", "2", "3", "4", "5", "6", "7", "8", "9"}

IsSignedDecimal(w) ==
  Len(w) >= 2 /\ w[1] \in {"+", "-"} /\ IsDecimal(Tail(w))

OffsetValue(w) ==
  IF w[1] = "-" THEN 0 - ValueIn(Tail(w), 10)
  ELSE IF w[1] = "+" THEN ValueIn(Tail(w), 10)
  ELSE ValueIn(w, 10)

\* "latest", then whitespace up to position j, then an optionally signed integer
OffsetStarts(c) ==
  {j \in 6..(Len(c) - 1) :
     /\ IsLatest(SubSeq(c, 1, 6))
     /\ \A i \in 7..j : c[i] \in WhiteSpace
     /\ (IsDecimal(SubSeq(c, j + 1, Len(c)))
           \/ IsSignedDecimal(SubSeq(c, j + 1, Len(c))))}

\* an unsigned integer literal: decimal digits, or 0x / 0o / 0b and digits
IsRadixLiteral(w) ==
  /\ Len(w) >= 3
  /\ w[1] = "0"
  /\ \/ w[2] \in {"x", "X"} /\ AllDigits(SubSeq(w, 3, Len(w)), 16)
     \/ w[2] \in {"o", "O"} /\ AllDigits(SubSeq(w, 3, Len(w)), 8)
     \/ w[2] \in {"b", "B"} /\ AllDigits(SubSeq(w, 3, Len(w)), 2)

RadixValue(w) ==
  ValueIn(SubSeq(w, 3, Len(w)),
          IF w[2] \in {"x", "X"} THEN 16 ELSE IF w[2] \in {"o", "O"} THEN 8 ELSE 2)

ExpectedBlockTag(text, head) ==
  IF IsBlankText(text) THEN BlockNum(head)
  ELSE LET c == CoreOf(text) IN
    IF IsLatest(c) THEN BlockNum(head)
    ELSE IF OffsetStarts(c) # {}
      THEN BlockNum(head + OffsetValue(
             SubSeq(c, (CHOOSE j \in OffsetStarts(c) : TRUE) + 1, Len(c))))
    ELSE IF IsSignedDecimal(c) /\ c[1] = "+"
      THEN BlockNum(head + ValueIn(Tail(c), 10))
    ELSE IF IsSignedDecimal(c) /\ c[1] = "-"
      THEN BlockNum(head - ValueIn(Tail(c), 10))
    ELSE IF IsDecimal(c) THEN BlockNum(ValueIn(c, 10))
    ELSE IF IsRadixLiteral(c) THEN BlockNum(RadixValue(c))
    ELSE BlockStr(text)

\* C1: parseBlockTag returns the head for blank text and for "latest", head + k
\* for "latest" with an offset k, head + N / head - N for a literal signed + / -,
\* N for an unsigned integer literal and the input text itself for any other
\* text; it never throws and never clamps a negative result.
C1_ResolveBlockTag ==
  tagCall.done =>
    tagCall.result = ExpectedBlockTag(tagCall.str, tagCall.latestBlockNum)

\* a relative tag resolved below zero
C1_Witness ==
  /\ tagCall.done
  /\ tagCall.str = <<" ", "-", "9">>
  /\ tagCall.latestBlockNum = 5
  /\ tagCall.result = BlockNum(0 - 4)

(***************************************************************************)
(* The argsFilters reduction applied to one raw filter text                *)
(***************************************************************************)
RawChars == {"a", "B", ",", " "}

InitFilter ==
  /\ AppInit
  /\ tagCall = NoCall
  /\ filterCall \in {[done |-> FALSE, key |-> "holder", raw |-> v,
                      result |-> NoFilters] : v \in StringsUpTo(MaxRawLen, RawChars)}
  /\ pageCall = NoCall
  /\ decodeCall = NoCall

BuildFilters ==
  /\ ~filterCall.done
  /\ filterCall' = [filterCall EXCEPT
       !.done = TRUE,
       !.result = argsFilters((filterCall.key :> filterCall.raw))]
  /\ UNCHANGED appVars
  /\ UNCHANGED <<tagCall, pageCall, decodeCall>>

NextFilter == BuildFilters

SpecFilter == InitFilter /\ [][NextFilter]_vars

\* the comma-separated pieces of a text, each without surrounding whitespace
Commas(v) == {i \in 1..Len(v) : v[i] = ","}

NthComma(v, k) ==
  CHOOSE i \in Commas(v) : Cardinality({j \in Commas(v) : j < i}) = k - 1

PieceOf(v, k) ==
  LET start == IF k = 1 THEN 0 ELSE NthComma(v, k - 1)
      end == IF k = Cardinality(Commas(v)) + 1 THEN Len(v) + 1
             ELSE NthComma(v, k)
      piece == SubSeq(v, start + 1, end - 1)
  IN IF IsBlankText(piece) THEN <<>> ELSE CoreOf(piece)

TrimmedPieces(v) == [k \in 1..(Cardinality(Commas(v)) + 1) |-> PieceOf(v, k)]

\* C4: the filter has a key for a parameter exactly when its raw text is
\* neither empty nor whitespace-only, and the entry is the list of the
\* comma-separated pieces of the text, each trimmed.
C4_BuildFilters ==
  filterCall.done =>
    /\ filterCall.key \in DOMAIN filterCall.result <=> ~IsBlankText(filterCall.raw)
    /\ filterCall.key \in DOMAIN filterCall.result =>
         filterCall.result[filterCall.key] = TrimmedPieces(filterCall.raw)

(***************************************************************************)
(* The pager expressions applied to one sequence, page size and page       *)
(***************************************************************************)
PageSizes == {1, 2, 10, eventsPerPage}
PageNumbers == {1, 2, 3, 4, 99}

InitPage ==
  /\ AppInit
  /\ decodeCall = NoCall
  /\ tagCall = NoCall
  /\ filterCall = NoCall
  /\ pageCall \in {[done |-> FALSE, seq |-> [i \in 1..n |-> i], perPage |-> s,
                    page |-> p, window |-> <<>>, total |-> 0] :
                     n \in 0..MaxSeqLen, s \in PageSizes, p \in PageNumbers}

PageOf ==
  /\ ~pageCall.done
  /\ pageCall' = [pageCall EXCEPT
       !.done = TRUE,
       !.window = currentEventsOf(pageCall.seq, pageCall.page, pageCall.perPage),
       !.total = totalPagesOf(pageCall.seq, pageCall.perPage)]
  /\ UNCHANGED appVars
  /\ UNCHANGED <<tagCall, filterCall, decodeCall>>

NextPage == PageOf

SpecPage == InitPage /\ [][NextPage]_vars

\* the elements at zero-based offsets [(n-1)*s, n*s), clipped to the sequence
WindowOf(seq, s, n) ==
  LET lo == (n - 1) * s
      hi == IF n * s < Len(seq) THEN n * s ELSE Len(seq)
  IN [k \in 1..(hi - lo) |-> seq[lo + k]]

\* ceil(len / s): the least count of pages of s elements that holds len elements
CeilOf(len, s) ==
  CHOOSE t \in 0..len : t * s >= len /\ \A u \in 0..(t - 1) : u * s < len

\* C8: page(seq, s, n) is the elements of seq at zero-based offsets (n-1)*s up
\* to n*s, clipped to seq, in order (empty past the end), and totalPages is
\* ceil(len(seq) / s).
C8_Pager ==
  pageCall.done =>
    /\ pageCall.window = WindowOf(pageCall.seq, pageCall.perPage, pageCall.page)
    /\ ((pageCall.page - 1) * pageCall.perPage >= Len(pageCall.seq)
          => pageCall.window = <<>>)
    /\ pageCall.total = CeilOf(Len(pageCall.seq), pageCall.perPage)

\* 37 elements in pages of 15: the third page holds the last 7, of 3 pages
C8_Witness ==
  /\ pageCall.done
  /\ Len(pageCall.seq) = 37
  /\ pageCall.perPage = 15
  /\ pageCall.page = 3
  /\ pageCall.window = <<31, 32, 33, 34, 35, 36, 37>>
  /\ pageCall.total = 3

(***************************************************************************)
(* Properties of the session                                               *)
(***************************************************************************)
AtRangeQuery(q) == q.stage = "getContractEvents"

\* C2: a block-range endpoint that resolves to a pass-through tag is sent to
\* the chain client as that tag, for fromBlock and for toBlock.
C2_PassThroughTagSent ==
  \A i \in 1..Len(queries) :
    AtRangeQuery(queries[i]) =>
      /\ queries[i].fromBlock.kind = "string"
           => queries[i].request.fromBlock = queries[i].fromBlock
      /\ queries[i].toBlock.kind = "string"
           => queries[i].request.toBlock = queries[i].toBlock

\* C3: the filter of a range query has entries only for indexed parameters of
\* the event selected for that query.
C3_FilterOnlySelectedEvent ==
  \A i \in 1..Len(queries) :
    AtRangeQuery(queries[i]) =>
      DOMAIN queries[i].request.args
        \subseteq IndexedParams(queries[i].request.abi, queries[i].request.eventName)

ParamNames(abi, name) ==
  IF FindIndex(abi, name) = 0 THEN {}
  ELSE {abi[FindIndex(abi, name)].inputs[i].name :
          i \in 1..Len(abi[FindIndex(abi, name)].inputs)}

\* C5: selecting a different event while a result set is shown sets currentPage
\* to 1 and leaves filter values only for parameters of the new event.
SelectsDifferentEvent ==
  /\ selectedEvent # ""
  /\ selectedEvent' # ""
  /\ selectedEvent' # selectedEvent
  /\ eventsABI' = eventsABI

C5_SelectResets ==
  [][(events # <<>> /\ SelectsDifferentEvent)
       => /\ currentPage' = 1
          /\ DOMAIN indexedFilters' \subseteq ParamNames(eventsABI', selectedEvent')]_vars

\* C6: at most one fetchEvents invocation is outstanding, and the busy flag is
\* set for as long as it is.
C6_SingleFlight ==
  /\ Len(queries) <= 1
  /\ queries # <<>> => loading

\* a query waiting for its logs while the user has edited the form meanwhile
C6_Witness ==
  /\ Len(queries) = 1
  /\ AtRangeQuery(queries[1])
  /\ loading
  /\ formData # queries[1].formData
  /\ clickedButton # 0

\* C7: while a query is outstanding no earlier result set is shown, and a
\* result set and an error message are never shown together.
C7_ResultsOrError ==
  /\ loading => events = <<>>
  /\ ~(error # "" /\ events # <<>>)

\* the catalog the contract gives for a schema text
CatalogOf(text) ==
  IF IsBlankText(text) THEN <<>>
  ELSE IF JSONparse(CoreOf(text)).ok
    THEN SelectSeq(JSONparse(CoreOf(text)).value, IsEvent)
  ELSE <<>>

\* C9: an edit of the schema text never throws past its handler, and leaves
\* the catalog holding the event entries of the text, in order, or empty when
\* the text has none or is not a schema.
C9_SchemaParseContained ==
  [][formData'.contractABI # formData.contractABI
       => /\ uncaught' = ""
          /\ eventsABI' = CatalogOf(formData'.contractABI)]_vars

NoSelection(q) ==
  q.eventsABI = <<>> \/ q.selectedEvent \notin EventNames(q.eventsABI)

\* C10: a query started with an empty catalog, or with a selected name that no
\* event of the catalog has, ends with an error message and gives no result set.
C10_SelectionError ==
  [][\A i \in 1..Len(queries) :
       (NoSelection(queries[i]) /\ Len(queries') < Len(queries))
         => error' # "" /\ events' = events]_vars

\* C11: a query fetches the head once, before its range query, resolves both
\* endpoints against that one head, issues the range query at most once, and a
\* failed head fetch ends it in failure with no range query sent.
HeadFetchedOnce ==
  \A i \in 1..Len(queries) :
    /\ queries[i].headFetches = 1
    /\ queries[i].stage = "getBlock" => queries[i].rangeQueries = 0
    /\ AtRangeQuery(queries[i]) =>
         /\ queries[i].rangeQueries = 1
         /\ queries[i].latestBlk \in Heads
         /\ queries[i].fromBlock =
              parseBlockTag(queries[i].formData.fromBlock, queries[i].latestBlk)
         /\ queries[i].toBlock =
              parseBlockTag(queries[i].formData.toBlock, queries[i].latestBlk)

HeadFailureEndsQuery ==
  \A i \in 1..Len(queries) :
    (queries[i].stage = "getBlock" /\ Len(queries') < Len(queries))
      => /\ error' # ""
         /\ loading' = FALSE
         /\ events' = events

C11_OneHeadOneRangeQuery == []HeadFetchedOnce /\ [][HeadFailureEndsQuery]_vars

\* a range query out, both endpoints left blank and resolved to the one head
C11_Witness ==
  /\ Len(queries) = 1
  /\ AtRangeQuery(queries[1])
  /\ queries[1].latestBlk = 1001
  /\ queries[1].request.fromBlock = BlockNum(1001)
  /\ queries[1].request.toBlock = BlockNum(1001)
  /\ queries[1].headFetches = 1

\* C13: whenever the result set is non-empty, 1 <= currentPage <= totalPages,
\* so the page window shown is non-empty.
C13_PageInRange ==
  events # <<>> =>
    /\ 1 <= currentPage
    /\ currentPage <= totalPages
    /\ currentEvents # <<>>

\* the last page of a two-page result set, reached with Next, after a failed query
C13_Witness ==
  /\ Len(events) = eventsPerPage + 1
  /\ currentPage = 2
  /\ totalPages = 2
  /\ Len(currentEvents) = 1
  /\ error # ""

\* C14: a query that set the busy flag clears it on every path, given that the
\* chain client answers every request; the error message is cleared when a
\* query starts and is non-empty at its end exactly when the query failed.
QueryStarts == Len(queries') > Len(queries)

QuerySucceeds ==
  \E i \in 1..Len(queries), logs \in LogResponses :
    getContractEventsReturns(i, logs)

QueryFails ==
  \/ fetchEvents(FALSE)
  \/ \E i \in 1..Len(queries) : getBlockFails(i) \/ getContractEventsFails(i)
  \/ \E i \in 1..Len(queries), head \in Heads :
       getBlockReturns(i, head) /\ Len(queries') < Len(queries)

ErrorTracksOutcome ==
  /\ QueryStarts => (loading' /\ error' = "")
  /\ QuerySucceeds => (~loading' /\ error' = "")
  /\ QueryFails => (~loading' /\ error' # "")

C14_BusyFlagClears == (loading ~> ~loading) /\ [][ErrorTracksOutcome]_vars

\* a query failed at its range query: not busy, error shown, earlier results kept
C14_Witness ==
  /\ ~loading
  /\ queries = <<>>
  /\ error = "Error: HTTP request failed"
  /\ events # <<>>

(***************************************************************************)
(* Decoding: decoded values, BigInt.prototype.toString, the arguments      *)
(* record of App.js:84-93 and the display record of App.tsx:155            *)
(***************************************************************************)
\* A decoded value.  A bigint is a sign and base-1000 limbs, most significant
\* first, with no leading zero limb (zero is the one limb 0).
LimbBase == 1000
BigIntVal(neg, limbs) ==
  [kind |-> "bigint", neg |-> neg, limbs |-> limbs, text |-> <<>>, flag |-> FALSE]
StringVal(text) ==
  [kind |-> "string", neg |-> FALSE, limbs |-> <<>>, text |-> text, flag |-> FALSE]
BoolVal(b) ==
  [kind |-> "boolean", neg |-> FALSE, limbs |-> <<>>, text |-> <<>>, flag |-> b]

DigitChar == <<"0", "1", "2", "3", "4", "5", "6", "7", "8", "9">>

PaddedLimb(l) ==
  <<DigitChar[(l \div 100) + 1], DigitChar[((l \div 10) % 10) + 1],
    DigitChar[(l % 10) + 1]>>

LeadingLimb(l) ==
  IF l >= 100 THEN PaddedLimb(l)
  ELSE IF l >= 10 THEN SubSeq(PaddedLimb(l), 2, 3)
  ELSE SubSeq(PaddedLimb(l), 3, 3)

RECURSIVE PaddedLimbs(_)
PaddedLimbs(limbs) ==
  IF limbs = <<>> THEN <<>>
  ELSE PaddedLimb(Head(limbs)) \o PaddedLimbs(Tail(limbs))

\* value.toString() of a bigint
toString(v) ==
  (IF v.neg THEN <<"-">> ELSE <<>>)
    \o LeadingLimb(Head(v.limbs)) \o PaddedLimbs(Tail(v.limbs))

\* the JSON.stringify replacer that leaves every value as it is
bigIntStringifyNothing(key, value) == value

bigIntStringify(key, value) ==
  IF value.kind = "bigint" THEN StringVal(toString(value)) ELSE value

\* An arguments record: entries [name, value] in insertion order
RECURSIVE ObjectFromEntries(_)
ObjectFromEntries(entries) ==
  IF entries = <<>> THEN <<>>
  ELSE LET before == ObjectFromEntries(SubSeq(entries, 1, Len(entries) - 1))
           last == entries[Len(entries)]
       IN IF \E j \in 1..Len(before) : before[j].name = last.name
          THEN [j \in 1..Len(before) |->
                  IF before[j].name = last.name THEN last ELSE before[j]]
          ELSE Append(before, last)

\* App.js:84-93: Object.fromEntries(parsed.fragment.inputs.map(...))
decodedArgs(inputs, values) ==
  ObjectFromEntries(
    [i \in 1..Len(inputs) |->
       [name |-> inputs[i].name,
        value |-> IF values[i].kind = "bigint"
                  THEN StringVal(toString(values[i])) ELSE values[i]]])

\* App.js:79-95: logs.map(...), parseLog giving the inputs and the values
parsedEventsJs(logs) ==
  [i \in 1..Len(logs) |->
     [blockNumber |-> logs[i].blockNumber,
      txHash |-> logs[i].transactionHash,
      args |-> decodedArgs(logs[i].inputs, logs[i].values)]]

\* the raw log as the chain client of App.tsx hands it over: args decoded by
\* the client, by name in declared order, or absent
ClientLog(log) ==
  [blockNumber |-> log.blockNumber,
   transactionHash |-> log.transactionHash,
   args |-> [defined |-> log.decoded,
             entries |-> [j \in 1..Len(log.inputs) |->
                            [name |-> log.inputs[j].name, value |-> log.values[j]]]]]

\* App.tsx:155: JSON.stringify(event.args, bigIntStringify, 2), as a record
shownArgs(args) ==
  [j \in 1..Len(args) |->
     [name |-> args[j].name, value |-> bigIntStringify(args[j].name, args[j].value)]]

shownEvents(logs) ==
  [i \in 1..Len(logs) |->
     [blockNumber |-> parsedEvents(logs)[i].blockNumber,
      txHash |-> parsedEvents(logs)[i].txHash,
      args |-> shownArgs(parsedEvents(logs)[i].args)]]

AddressA == <<"0", "x", "A">>
AddressB == <<"0", "x", "B">>
LimbChoices == {0, 7, 42, LimbBase - 1}
TenPow30 == BigIntVal(FALSE, <<1, 0, 0, 0, 0, 0, 0, 0, 0, 0, 0>>)
BigValues ==
  {BigIntVal(FALSE, l) :
     l \in {m \in UNION {[1..k -> LimbChoices] : k \in 1..MaxLimbs} :
              Len(m) = 1 \/ m[1] # 0}}
    \cup {TenPow30, BigIntVal(TRUE, <<5>>)}

ValuesOfType(t) ==
  CASE t = "address" -> {StringVal(AddressA), StringVal(AddressB)}
    [] t = "uint256" -> BigValues
    [] OTHER -> {BoolVal(TRUE), BoolVal(FALSE)}

\* the logs a range query can return for the Transfer event of ERC20_ABI and
\* the ApprovalForAll event of ERC721_ABI
DecodableLogs ==
  {[inputs |-> ins, values |-> vals, decoded |-> d] :
     ins \in {ERC20_ABI[2].inputs}, d \in BOOLEAN,
     vals \in {<<StringVal(AddressA), StringVal(AddressB), v>> : v \in BigValues}}
  \cup
  {[inputs |-> ins, values |-> vals, decoded |-> d] :
     ins \in {ERC721_ABI[2].inputs}, d \in BOOLEAN,
     vals \in {<<StringVal(AddressB), StringVal(AddressA), v>> :
                 v \in ValuesOfType("bool")}}

LogLists ==
  UNION {{[i \in 1..n |->
             [blockNumber |-> 100 + i, transactionHash |-> i,
              inputs |-> f[i].inputs, values |-> f[i].values,
              decoded |-> f[i].decoded]] : f \in [1..n -> DecodableLogs]} :
           n \in 0..MaxLogs}

InitDecode ==
  /\ AppInit
  /\ tagCall = NoCall
  /\ filterCall = NoCall
  /\ pageCall = NoCall
  /\ decodeCall \in {[done |-> FALSE, logs |-> l, parsed |-> <<>>, shown |-> <<>>] :
                       l \in LogLists}

DecodeLogs ==
  /\ ~decodeCall.done
  /\ decodeCall' = [decodeCall EXCEPT
       !.done = TRUE,
       !.parsed = parsedEventsJs(decodeCall.logs),
       !.shown = shownEvents([i \in 1..Len(decodeCall.logs) |->
                                ClientLog(decodeCall.logs[i])])]
  /\ UNCHANGED appVars
  /\ UNCHANGED <<tagCall, filterCall, pageCall>>

NextDecode == DecodeLogs

SpecDecode == InitDecode /\ [][NextDecode]_vars

\* the limbs a decimal digit string stands for: its digits in groups of three
\* from the right
LimbsOfDigits(digits) ==
  LET n == (Len(digits) + 2) \div 3
      pad == 3 * n - Len(digits)
  IN [k \in 1..n |->
        ValueIn(SubSeq(digits, IF k = 1 THEN 1 ELSE 3 * (k - 1) + 1 - pad,
                       3 * k - pad), 10)]

\* text is the exact decimal string of the bigint v: a "-" for a negative
\* value, no other sign, no leading zero, and digits that give back v
IsExactDecimal(text, v) ==
  LET digits == IF v.neg THEN Tail(text) ELSE text
  IN /\ text # <<>>
     /\ v.neg => text[1] = "-"
     /\ IsDecimal(digits)
     /\ (Len(digits) > 1 => digits[1] # "0")
     /\ LimbsOfDigits(digits) = v.limbs

ArgsAsDeclared(inputs, values, args) ==
  /\ Len(args) = Len(inputs)
  /\ \A j \in 1..Len(inputs) :
       /\ args[j].name = inputs[j].name
       /\ IF values[j].kind = "bigint"
          THEN /\ args[j].value.kind = "string"
               /\ IsExactDecimal(args[j].value.text, values[j])
          ELSE args[j].value = values[j]

OneAndThirtyZeros == <<"1">> \o [k \in 1..30 |-> "0"]

====
